---- MODULE Spec2Model ----
(***************************************************************************)
(* A model of src/barcode_scanner.py: the keystroke tokenizer, the daily   *)
(* spreadsheet log with its corruption recovery, the daily rotation and    *)
(* the upload worker with its retry loop.                                  *)
(*                                                                         *)
(* A string is a sequence of one-character strings.  A key event's name is *)
(* such a string: <<"a">> for the key a, SpaceKey for the space bar and    *)
(* EnterKey for Enter.  A file is a record [rows, ok]: rows is the sheet   *)
(* (header first), ok = FALSE is a file openpyxl cannot load.  A path is a *)
(* record [day, suffix]: the log of calendar day `day`, with suffix        *)
(* NoSuffix, or a _CORRUPTED_<timestamp> copy of it.                       *)
(***************************************************************************)
EXTENDS Integers, Sequences, FiniteSets, TLC

VARIABLES
    fs,                 \* the files under base_dir: path -> file
    excel_path,         \* self.excel_path
    scan_count,         \* self.scan_count
    barcode_buffer,     \* self.barcode_buffer: the key names received
    last_input_time,    \* self.last_input_time (None or a time)
    lock,               \* self._lock: None or the thread holding it
    th,                 \* each thread's position and locals
    running,            \* self._running
    box_client,         \* self.box_client is not None
    upload_worker_running, \* self.upload_worker_running
    upload_queue,       \* self.upload_queue
    unfinished,         \* upload_queue.unfinished_tasks
    worker,             \* the upload worker thread: position and locals
    remote,             \* the items of the Box folder, in upload order
    time,               \* time.time(), in seconds
    date,               \* datetime.now(): [day, past], past = at or after 00:01
    next_run,           \* the day the scheduler's job fires next (at 00:01)
    proc,               \* "up" between __init__ and the end of the process
    hist                \* history: what each context has done (observation only)

vars == <<fs, excel_path, scan_count, barcode_buffer, last_input_time, lock, th,
          running, box_client,
                   upload_worker_running, upload_queue, unfinished, worker, remote, time,
          date, next_run, proc, hist>>

None == "None"        \* no thread
NoTime == -1          \* last_input_time is None

----------------------------------------------------------------------------
(* Bounds of the model *)

MaxKeys == 5        \* key events of one scan in the tokenizer specification
MaxAppends == 2     \* _log_barcode calls in the log specification
MaxBuffer == 1      \* buffered keys in the log specification
MaxTicks == 1       \* advances of the clock in the log specification
MaxDay == 3         \* calendar days in the rotation specification
MaxRuns == 2        \* process starts in the rotation specification
MaxScans == 2       \* scans in the rotation specification
MaxFaults == 3       \* failures of remote calls in the upload specification
MaxPartial == 2      \* keys in a buffer of the finalization specification
MaxPause == 2        \* advances of the clock in the finalization specification

(* Program constants *)

BARCODE_TIMEOUT == 5    \* Config.barcode_timeout
MAX_RETRIES == 3        \* Config.max_retries
RETRY_DELAY == 5        \* Config.retry_delay
BUFFER_LIMIT == 100     \* the overflow limit of _on_barcode_input
MIN_LENGTH == 3         \* the minimum length of _validate_barcode

----------------------------------------------------------------------------
(* Strings *)

SpaceKey == <<"s", "p", "a", "c", "e">>
EnterKey == <<"e", "n", "t", "e", "r">>
Whitespace == {" "}

RECURSIVE Join(_)
\* "".join(names)
Join(names) ==
    IF names = <<>> THEN <<>> ELSE Head(names) \o Join(Tail(names))

RECURSIVE Replace(_, _, _)
\* s.replace(old, new): every non-overlapping occurrence, from the left
Replace(s, old, new) ==
    IF Len(s) < Len(old) THEN s
    ELSE IF SubSeq(s, 1, Len(old)) = old
         THEN new \o Replace(SubSeq(s, Len(old) + 1, Len(s)), old, new)
         ELSE <<Head(s)>> \o Replace(Tail(s), old, new)

RECURSIVE LStrip(_)
LStrip(s) ==
    IF s # <<>> /\ Head(s) \in Whitespace THEN LStrip(Tail(s)) ELSE s

RECURSIVE RStrip(_)
RStrip(s) ==
    IF s # <<>> /\ s[Len(s)] \in Whitespace
    THEN RStrip(SubSeq(s, 1, Len(s) - 1)) ELSE s

\* s.strip()
Strip(s) == RStrip(LStrip(s))

\* The barcode _on_barcode_input makes of the buffer on Enter
EnterBarcode(buffer) == Strip(Replace(Join(buffer), SpaceKey, <<" ">>))

\* The barcode _check_barcode_timeout makes of the buffer
TimeoutBarcode(buffer) == Join(buffer)

\* A validation that accepts every barcode
ValidateBarcode_Any(barcode) == TRUE

\* _validate_barcode(barcode)
ValidateBarcode(barcode) ==
    IF barcode = <<>> \/ Len(Strip(barcode)) = 0 THEN FALSE
    ELSE IF Len(Strip(barcode)) < MIN_LENGTH THEN FALSE
    ELSE TRUE

----------------------------------------------------------------------------
(* Files *)

NoSuffix == <<>>

\* base_dir / f"scanned_barcodes_{day}.xlsx"
LogPath(day) == [day |-> day, suffix |-> NoSuffix]

\* str(path).replace(".xlsx", f"_CORRUPTED_{timestamp_str}.xlsx")
CorruptedPath(path, stamp) ==
    IF path.suffix = NoSuffix THEN [path EXCEPT !.suffix = <<stamp>>]
    ELSE [path EXCEPT !.suffix = <<stamp>> \o @]

\* datetime.now().strftime(...): the day and the second
Timestamp == <<date.day, time>>

Header == [barcode |-> <<"Barcode">>, timestamp |-> <<"Timestamp">>, status |-> "Status"]

Row(barcode, status) == [barcode |-> barcode, timestamp |-> Timestamp, status |-> status]

\* openpyxl.Workbook() with the title row appended
NewWorkbook == <<Header>>

File(rows) == [rows |-> rows, ok |-> TRUE]

Exists(f, path) == path \in DOMAIN f

\* wb.save(path): the file is created or replaced
Save(f, path, rows) ==
    [p \in DOMAIN f \cup {path} |-> IF p = path THEN File(rows) ELSE f[p]]

\* An unlink that leaves the file in place
Unlink_Keep(f, path) == f

\* path.unlink() / os.remove(path)
Unlink(f, path) == [p \in DOMAIN f \ {path} |-> f[p]]

\* os.rename(src, dst) on POSIX: an existing dst is replaced
Rename(f, src, dst) ==
    [p \in (DOMAIN f \ {src}) \cup {dst} |-> IF p = dst THEN f[src] ELSE f[p]]

\* openpyxl.load_workbook(path) returns (it raises on a missing or unreadable file)
Loads(f, path) == Exists(f, path) /\ f[path].ok

\* ws.max_row
MaxRow(rows) == IF Len(rows) = 0 THEN 1 ELSE Len(rows)

\* A check that takes every file that can be read as one with scan data
HasScanData_Readable(f, path) == Loads(f, path)

\* _has_scan_data(path)
HasScanData(f, path) == IF Loads(f, path) THEN MaxRow(f[path].rows) > 1 ELSE FALSE

\* The records of a file beyond the header
Records(f, path) == Tail(f[path].rows)

----------------------------------------------------------------------------
(* Threads.  "cb" is the keyboard library's listener thread, which calls    *)
(* _on_barcode_input for one event at a time; "main" is the loop of run().  *)

Threads == {"cb", "main"}

Idle == [pc |-> "idle", barcode |-> <<>>, status |-> "", wb |-> <<>>]

\* The call _log_barcode(barcode, status) made by thread t
CallLogBarcode(t, barcode, status) ==
    th' = [th EXCEPT ![t] = [pc |-> "lock", barcode |-> barcode,
                             status |-> status, wb |-> <<>>]]

\* The keys whose names _on_barcode_input collects
Collected(name) == Len(name) = 1 \/ name = SpaceKey

\* A limit that already the hundredth key exceeds
Overflows_AtLimit(buffer) == Len(buffer) >= BUFFER_LIMIT

\* len(self.barcode_buffer) > 100, after the append
Overflows(buffer) == Len(buffer) > BUFFER_LIMIT

\* _on_barcode_input(event): one key event, up to the call of _log_barcode
OnBarcodeInput(name, down) ==
    /\ proc = "up"
    /\ th["cb"].pc = "idle"
    /\ IF ~running \/ ~down
       THEN UNCHANGED <<last_input_time, barcode_buffer, th>>
       ELSE IF name = EnterKey
       THEN IF barcode_buffer # <<>>
            THEN /\ last_input_time' = time
                 /\ CallLogBarcode("cb", EnterBarcode(barcode_buffer),
                        IF ValidateBarcode(EnterBarcode(barcode_buffer))
                        THEN "SUCCESS" ELSE "INVALID")
                 /\ UNCHANGED barcode_buffer
            ELSE /\ last_input_time' = time
                 /\ UNCHANGED <<barcode_buffer, th>>
       ELSE IF Collected(name)
       THEN IF Overflows(Append(barcode_buffer, name))
            THEN /\ barcode_buffer' = <<>>
                 /\ last_input_time' = NoTime
                 /\ UNCHANGED th
            ELSE /\ barcode_buffer' = Append(barcode_buffer, name)
                 /\ last_input_time' = time
                 /\ UNCHANGED th
       ELSE /\ last_input_time' = time
            /\ UNCHANGED <<barcode_buffer, th>>
    /\ UNCHANGED <<fs, excel_path, scan_count, lock, running, box_client,
                   upload_worker_running,
                   upload_queue, unfinished, worker, remote, time, date,
                   next_run, proc, hist>>

\* _check_barcode_timeout(), the first two operands of its condition:
\* self.barcode_buffer and self.last_input_time are read and found truthy
CheckBarcodeTimeout ==
    /\ proc = "up"
    /\ running
    /\ th["main"].pc = "idle"
    /\ barcode_buffer # <<>>
    /\ last_input_time # NoTime
    /\ th' = [th EXCEPT !["main"].pc = "compare"]
    /\ UNCHANGED <<fs, excel_path, scan_count, barcode_buffer, last_input_time,
                   lock, running, box_client,
                   upload_worker_running, upload_queue, unfinished, worker,
                   remote, time, date, next_run, proc, hist>>

\* time.time() - None raises TypeError
Subtracts(t, last) == last # NoTime

\* _check_barcode_timeout(), the third operand: self.last_input_time is read
\* again for time.time() - self.last_input_time.  A TypeError leaves
\* _check_barcode_timeout and the loop of run(), whose except branch calls
\* stop() and raises again.  Otherwise the buffer is joined and logged when
\* the difference exceeds the timeout.
CheckBarcodeTimeoutCompare ==
    /\ th["main"].pc = "compare"
    /\ IF ~Subtracts(time, last_input_time)
       THEN /\ th' = [th EXCEPT !["main"].pc = "raised"]
            /\ running' = FALSE
            /\ hist' = [hist EXCEPT !.raised = TRUE]
       ELSE IF time - last_input_time > BARCODE_TIMEOUT
       THEN /\ CallLogBarcode("main", TimeoutBarcode(barcode_buffer), "TIMEOUT")
            /\ UNCHANGED <<running, hist>>
       ELSE /\ th' = [th EXCEPT !["main"].pc = "idle"]
            /\ UNCHANGED <<running, hist>>
    /\ UNCHANGED <<fs, excel_path, scan_count, barcode_buffer, last_input_time,
                   lock, box_client,
                   upload_worker_running, upload_queue, unfinished, worker,
                   remote, time, date, next_run, proc>>

\* What both callers do when _log_barcode has returned
ClearBuffer(t) ==
    /\ th[t].pc = "clear"
    /\ barcode_buffer' = <<>>
    /\ last_input_time' = NoTime
    /\ th' = [th EXCEPT ![t] = Idle]
    /\ UNCHANGED <<fs, excel_path, scan_count, lock, running, box_client,
                   upload_worker_running,
                   upload_queue, unfinished, worker, remote, time, date,
                   next_run, proc, hist>>

----------------------------------------------------------------------------
(* _log_barcode and _handle_file_corruption *)

\* A lock that never makes a thread wait
LockFree_NoWait == TRUE

\* threading.Lock.acquire: only a free lock is taken
LockFree == lock = None

\* with self._lock: the section is entered
LogLock(t) ==
    /\ th[t].pc = "lock"
    /\ LockFree
    /\ lock' = t
    /\ th' = [th EXCEPT ![t].pc = "load"]
    /\ hist' = [hist EXCEPT !.calls = Append(@, [barcode |-> th[t].barcode,
                                                 status |-> th[t].status])]
    /\ UNCHANGED <<fs, excel_path, scan_count, barcode_buffer, last_input_time,
                   running, box_client,
                   upload_worker_running, upload_queue, unfinished, worker,
                   remote, time, date, next_run, proc>>

\* A handler that writes the new log over the old file without renaming it
HandleFileCorruption_NoRename(f, path, count, barcode, renameOk, saveOk) ==
    [fs |-> IF saveOk
            THEN Save(f, path, Append(NewWorkbook, Row(barcode, "RECOVERED")))
            ELSE f,
     scan_count |-> IF saveOk THEN 1 ELSE count,
     raised |-> FALSE]

\* _handle_file_corruption(barcode): the files and the counter it leaves, and
\* whether an exception leaves it.  renameOk and saveOk are what os.rename and
\* wb.save do (both are wrapped in try/except).
HandleFileCorruption(f, path, count, barcode, renameOk, saveOk) ==
    LET corrupted_file == CorruptedPath(path, Timestamp)
        f1 == IF Exists(f, path) /\ renameOk
              THEN Rename(f, path, corrupted_file) ELSE f
    IN  [fs |-> IF saveOk
                THEN Save(f1, path, Append(NewWorkbook, Row(barcode, "RECOVERED")))
                ELSE f1,
         scan_count |-> IF saveOk THEN 1 ELSE count,
         raised |-> FALSE]

\* The except branches of _log_barcode: the handler runs inside the lock,
\* which is released when the with block is left
Recover(t, renameOk, saveOk) ==
    LET r == HandleFileCorruption(fs, excel_path, scan_count, th[t].barcode,
                                  renameOk, saveOk)
    IN  /\ fs' = r.fs
        /\ scan_count' = r.scan_count
        /\ lock' = IF lock = t THEN None ELSE lock
        /\ th' = [th EXCEPT ![t].pc = IF r.raised THEN "raised" ELSE "clear"]
        /\ hist' = [hist EXCEPT
                      !.raised = @ \/ r.raised,
                      !.recoveries = @ + 1,
                      !.last = [barcode |-> th[t].barcode,
                                path |-> excel_path,
                                corrupted |-> CorruptedPath(excel_path, Timestamp),
                                existed |-> Exists(fs, excel_path),
                                old |-> IF Exists(fs, excel_path)
                                        THEN fs[excel_path] ELSE File(<<>>),
                                rename_ok |-> renameOk,
                                save_ok |-> saveOk]]

\* wb = openpyxl.load_workbook(self.excel_path), or the except branch
LogLoad(t, renames, saves) ==
    /\ th[t].pc = "load"
    /\ IF Loads(fs, excel_path)
       THEN /\ th' = [th EXCEPT ![t].pc = "save", ![t].wb = fs[excel_path].rows]
            /\ UNCHANGED <<fs, scan_count, lock, hist>>
       ELSE \E renameOk \in renames, saveOk \in saves :
                Recover(t, renameOk, saveOk)
    /\ UNCHANGED <<excel_path, barcode_buffer, last_input_time, running,
                   box_client,
                   upload_worker_running, upload_queue, unfinished, worker, remote, time,
                   date, next_run, proc>>

\* ws.append(...); wb.save(self.excel_path); self.scan_count += 1, or the
\* except branch when the save raises
LogSave(t, writes, renames, saves) ==
    /\ th[t].pc = "save"
    /\ \E writeOk \in writes :
         IF writeOk
         THEN /\ fs' = Save(fs, excel_path,
                            Append(th[t].wb, Row(th[t].barcode, th[t].status)))
              /\ scan_count' = scan_count + 1
              /\ lock' = IF lock = t THEN None ELSE lock
              /\ th' = [th EXCEPT ![t].pc = "clear"]
              /\ UNCHANGED hist
         ELSE \E renameOk \in renames, saveOk \in saves :
                  Recover(t, renameOk, saveOk)
    /\ UNCHANGED <<excel_path, barcode_buffer, last_input_time, running,
                   box_client,
                   upload_worker_running, upload_queue, unfinished, worker, remote, time,
                   date, next_run, proc>>

\* The clock of time.time() advances
Tick(dt, limit) ==
    /\ time + dt <= limit
    /\ time' = time + dt
    /\ UNCHANGED <<fs, excel_path, scan_count, barcode_buffer, last_input_time,
                   lock, th, running, box_client,
                   upload_worker_running, upload_queue, unfinished,
                   worker, remote, date, next_run, proc, hist>>

----------------------------------------------------------------------------
(* The state after BarcodeScanner(config) on an empty base_dir and the      *)
(* start of run(): today's log holds the title row only.                    *)

NoRecovery == [barcode |-> <<>>, path |-> LogPath(0), corrupted |-> LogPath(0),
               existed |-> FALSE, old |-> File(<<>>),
               rename_ok |-> FALSE, save_ok |-> FALSE]

NoRotation == [n |-> 0, path |-> LogPath(0), yesterday |-> LogPath(0),
               existed |-> FALSE, had_data |-> FALSE, rows |-> <<>>,
               occupied |-> FALSE, queued |-> 0, done |-> FALSE]

NoHistory == [calls |-> <<>>, raised |-> FALSE, recoveries |-> 0,
              last |-> NoRecovery, runs |-> 0, scans |-> 0, faults |-> 0,
              blind |-> FALSE, rot |-> NoRotation, stop |-> <<>>]

NoFiles == <<>>

\* The upload worker at the top of its loop.  rows is the content the task's
\* file had when the task was taken; listed and uploaded tell what the last
\* _upload_to_box call did.
WorkerStart == [pc |-> "get", file_path |-> LogPath(0), attempt |-> 0,
                fails |-> 0, waits |-> <<>>, outcome |-> "none", rows |-> <<>>,
                listed |-> FALSE, uploaded |-> FALSE]

Started ==
    /\ fs = Save(NoFiles, LogPath(0), NewWorkbook)
    /\ excel_path = LogPath(0)
    /\ scan_count = 0
    /\ barcode_buffer = <<>>
    /\ last_input_time = NoTime
    /\ lock = None
    /\ th = [t \in Threads |-> Idle]
    /\ running = TRUE
    /\ box_client = TRUE
    /\ upload_worker_running = TRUE
    /\ upload_queue = <<>>
    /\ unfinished = 0
    /\ worker = WorkerStart
    /\ remote = <<>>
    /\ time = 0
    /\ date = [day |-> 0, past |-> TRUE]
    /\ next_run = 1
    /\ proc = "up"
    /\ hist = NoHistory

----------------------------------------------------------------------------
(* SpecTok: the tokenizer on the first scan of a run, for every sequence of *)
(* at most MaxKeys collected keys.                                          *)

TokKeys == {<<"s">>, <<"p">>, <<"a">>, <<"c">>, <<"e">>, SpaceKey, EnterKey}

TokInput ==
    /\ hist.calls = <<>>
    /\ \E name \in TokKeys, down \in BOOLEAN :
         /\ name # EnterKey => Len(barcode_buffer) < MaxKeys
         /\ OnBarcodeInput(name, down)

TokNext ==
    \/ TokInput
    \/ LogLock("cb")
    \/ LogLoad("cb", {TRUE}, {TRUE})
    \/ LogSave("cb", {TRUE}, {TRUE}, {TRUE})
    \/ ClearBuffer("cb")

SpecTok == Started /\ [][TokNext]_vars

\* The barcode the specification describes: every key mapped on its own
\* (the space key to one space, a character key to itself), then trimmed
MappedKeys(buffer) ==
    Strip(Join([i \in 1..Len(buffer) |->
                  IF buffer[i] = SpaceKey THEN <<" ">> ELSE buffer[i]]))

LastRow(f, path) == f[path].rows[Len(f[path].rows)]

\* C1: when Enter has logged the buffer (and the buffer is not yet cleared),
\* the barcode of the record written is the keys of the buffer in order, the
\* space key as one space and every character key as itself, trimmed.
C1_LoggedBarcodeIsMappedKeys ==
    th["cb"].pc = "clear" =>
        LastRow(fs, excel_path).barcode = MappedKeys(barcode_buffer)

----------------------------------------------------------------------------
(* SpecLog: the key-event callback and the main loop's timeout check        *)
(* appending to one day's log, with every failure of the file operations.   *)

LogKeys == {<<"a">>, EnterKey}

\* The _log_barcode calls made or about to be made
Calls == Len(hist.calls) + Cardinality({t \in Threads : th[t].pc = "lock"})

LogInput ==
    /\ Calls < MaxAppends
    /\ \E name \in LogKeys, down \in BOOLEAN :
         /\ name # EnterKey => Len(barcode_buffer) < MaxBuffer
         /\ OnBarcodeInput(name, down)

LogTimeout ==
    /\ Calls < MaxAppends
    /\ CheckBarcodeTimeout

\* The file of the current log is damaged from outside the program
CorruptFile ==
    /\ Loads(fs, excel_path)
    /\ fs' = [fs EXCEPT ![excel_path].ok = FALSE]
    /\ UNCHANGED <<excel_path, scan_count, barcode_buffer, last_input_time,
                   lock, th, running, box_client,
                   upload_worker_running, upload_queue, unfinished,
                   worker, remote, time, date, next_run, proc, hist>>

LogNext ==
    \/ LogInput
    \/ LogTimeout
    \/ CheckBarcodeTimeoutCompare
    \/ \E t \in Threads : LogLock(t)
    \/ \E t \in Threads : LogLoad(t, BOOLEAN, BOOLEAN)
    \/ \E t \in Threads : LogSave(t, BOOLEAN, BOOLEAN, BOOLEAN)
    \/ \E t \in Threads : ClearBuffer(t)
    \/ Tick(BARCODE_TIMEOUT + 1, MaxTicks * (BARCODE_TIMEOUT + 1))
    \/ CorruptFile

SpecLog == Started /\ [][LogNext]_vars

\* Thread t is between the load and the save of _log_barcode
InSection(t) == th[t].pc \in {"load", "save"}

\* The barcode and status of each record of a file, in order
Logged(f, path) ==
    [i \in 1..Len(Records(f, path)) |->
        [barcode |-> Records(f, path)[i].barcode,
         status |-> Records(f, path)[i].status]]

\* The calls whose section has ended
Completed ==
    IF \E t \in Threads : InSection(t)
    THEN SubSeq(hist.calls, 1, Len(hist.calls) - 1)
    ELSE hist.calls

\* C2: at most one thread is between the load and the save of _log_barcode,
\* and as long as no file operation has failed the log holds exactly one
\* record per completed call, in the order in which the calls entered the
\* section.
C2_AppendsSerialized ==
    /\ Cardinality({t \in Threads : InSection(t)}) <= 1
    /\ hist.recoveries = 0 =>
         /\ Exists(fs, excel_path)
         /\ fs[excel_path].rows[1] = Header
         /\ Logged(fs, excel_path) = Completed

\* C2's case: the callback is in the section with the log loaded and the
\* timeout checker, which has called _log_barcode, waits for the lock.
C2_Witness ==
    /\ hist.recoveries = 0
    /\ th["cb"].pc = "save" /\ th["main"].pc = "lock"

\* What the claim C3 says of the state a recovery leaves
RecoveredAll ==
    LET r == hist.last
    IN  /\ r.existed =>
            /\ r.corrupted.suffix # NoSuffix
            /\ Exists(fs, r.corrupted)
            /\ fs[r.corrupted] = r.old
        /\ Exists(fs, r.path)
        /\ fs[r.path].ok
        /\ Logged(fs, r.path) = <<[barcode |-> r.barcode, status |-> "RECOVERED"]>>
        /\ fs[r.path].rows[1] = Header

\* C3 as stated: every recovery leaves the old file under a corruption-tagged
\* name, untouched, and a new log with the header and the RECOVERED record.
C3_RecoveryAlwaysComplete ==
    [][hist'.recoveries # hist.recoveries => RecoveredAll']_vars

\* What a recovery leaves, by what os.rename and wb.save did
RecoveredBestEffort ==
    LET r == hist.last
    IN  /\ (r.existed /\ r.rename_ok) =>
            /\ r.corrupted.suffix # NoSuffix
            /\ Exists(fs, r.corrupted)
            /\ fs[r.corrupted] = r.old
        /\ r.save_ok =>
            /\ Exists(fs, r.path)
            /\ fs[r.path].ok
            /\ fs[r.path].rows[1] = Header
            /\ Logged(fs, r.path) = <<[barcode |-> r.barcode, status |-> "RECOVERED"]>>

\* C3 amended: when the rename succeeds the old file is found under the
\* corruption-tagged name with its content untouched, and when the save of
\* the new file succeeds the canonical path holds the header and the one
\* RECOVERED record of the triggering barcode.
C3_RecoveryBestEffort ==
    [][hist'.recoveries # hist.recoveries => RecoveredBestEffort']_vars

\* C3's case: a log with a record could not be loaded, was renamed, and the
\* new log was written.
C3_Witness ==
    /\ hist.recoveries > 0
    /\ hist.last.existed /\ hist.last.rename_ok /\ hist.last.save_ok
    /\ Len(hist.last.old.rows) > 1
    /\ Exists(fs, hist.last.corrupted)
    /\ \A t \in Threads : th[t].pc = "idle"

\* C4: no exception leaves the callback or the main loop: _log_barcode always
\* returns to its caller with the lock released, and the loop of run() goes on.
C4_NothingRaises ==
    /\ ~hist.raised
    /\ running
    /\ \A t \in Threads : th[t].pc # "raised"
    /\ lock # None => InSection(lock)

----------------------------------------------------------------------------
(* SpecFin: the two finalizations of the buffer, by Enter in the callback   *)
(* and by the timeout check of the main loop, with file operations that     *)
(* succeed.                                                                 *)

FinKeys == {<<"a">>, SpaceKey, EnterKey}

FinInput ==
    /\ Calls < MaxAppends
    /\ \E name \in FinKeys, down \in BOOLEAN :
         /\ name # EnterKey => Len(barcode_buffer) < MaxPartial
         /\ OnBarcodeInput(name, down)

FinTimeout ==
    /\ Calls < MaxAppends
    /\ CheckBarcodeTimeout

FinNext ==
    \/ FinInput
    \/ FinTimeout
    \/ CheckBarcodeTimeoutCompare
    \/ \E t \in Threads : LogLock(t)
    \/ \E t \in Threads : LogLoad(t, {TRUE}, {TRUE})
    \/ \E t \in Threads : LogSave(t, {TRUE}, {TRUE}, {TRUE})
    \/ \E t \in Threads : ClearBuffer(t)
    \/ Tick(BARCODE_TIMEOUT + 1, MaxPause * (BARCODE_TIMEOUT + 1))

SpecFin == Started /\ [][FinNext]_vars

\* The main loop polls the timeout check every 0.1 s, and a thread that has
\* called _log_barcode runs on to the end of its handler
SpecFinFair ==
    /\ SpecFin
    /\ WF_vars(FinTimeout)
    /\ WF_vars(CheckBarcodeTimeoutCompare)
    /\ WF_vars(\E t \in Threads : LogLock(t))
    /\ WF_vars(\E t \in Threads : LogLoad(t, {TRUE}, {TRUE}))
    /\ WF_vars(\E t \in Threads : LogSave(t, {TRUE}, {TRUE}, {TRUE}))
    /\ WF_vars(\E t \in Threads : ClearBuffer(t))

\* Thread t's append has succeeded in this step
Appended(t) == th[t].pc = "save" /\ th'[t].pc = "clear"

\* This step has added one record, with the barcode of t's call and the
\* given status, to the log and nothing else
OneRecord(t, status) ==
    Logged(fs', excel_path) =
        Append(Logged(fs, excel_path), [barcode |-> th[t].barcode, status |-> status])

\* The status the callback gives a barcode on Enter
EnterStatus(barcode) ==
    IF Len(Strip(barcode)) < MIN_LENGTH THEN "INVALID" ELSE "SUCCESS"

\* C11 as stated: every finalized barcode shorter than 3 after trimming is
\* written as one record with status INVALID.
C11_ShortIsInvalid ==
    [][\A t \in Threads :
          (Appended(t) /\ Len(Strip(th[t].barcode)) < MIN_LENGTH)
              => OneRecord(t, "INVALID")]_vars

\* C11 amended: every barcode finalized by Enter is written as one record,
\* with status INVALID when it is shorter than 3 after trimming and SUCCESS
\* otherwise; every barcode finalized by the timeout check is written as one
\* record with status TIMEOUT, whatever its length.
C11_ShortEnterIsInvalid ==
    [][/\ Appended("cb") => OneRecord("cb", EnterStatus(th["cb"].barcode))
       /\ Appended("main") => OneRecord("main", "TIMEOUT")]_vars

\* C11's case: Enter has finalized a barcode of one or two characters and the
\* record written has status INVALID.
C11_Witness ==
    /\ th["cb"].pc = "clear"
    /\ th["cb"].barcode # <<>> /\ Len(th["cb"].barcode) < MIN_LENGTH
    /\ LastRow(fs, excel_path).barcode = th["cb"].barcode
    /\ LastRow(fs, excel_path).status = "INVALID"

\* The buffers and the values of last_input_time of SpecFin
Buffers == UNION {[1..n -> FinKeys \ {EnterKey}] : n \in 1..MaxPartial}
Times == {n * (BARCODE_TIMEOUT + 1) : n \in 0..MaxPause}

\* More than the timeout has passed since the last key event, which left
\* buffer b, and no Enter is being handled
TimedOut(b, last) ==
    /\ running /\ th["main"].pc # "raised"
    /\ th["cb"].pc = "idle"
    /\ barcode_buffer = b
    /\ last_input_time = last
    /\ time - last > BARCODE_TIMEOUT

\* The timeout check has written the record of buffer b and cleared the buffer
TimeoutLogged(b) ==
    /\ barcode_buffer = <<>>
    /\ last_input_time = NoTime
    /\ th["main"].pc = "idle"
    /\ hist.calls # <<>>
    /\ hist.calls[Len(hist.calls)] =
           [barcode |-> TimeoutBarcode(b), status |-> "TIMEOUT"]
    /\ Logged(fs, excel_path) = hist.calls

\* Another key event has come in since the one at time last
KeyArrived(last) == last_input_time \notin {last, NoTime}

\* C12: when more than the timeout has passed since the last key event, the
\* buffer is not empty and no Enter is being handled, then, unless another
\* key event comes in, the timeout check writes the record of the partial
\* buffer with status TIMEOUT and clears the buffer; a key collected into an
\* empty buffer makes a buffer of that key alone.
C12_TimeoutFinalizes ==
    /\ \A b \in Buffers, last \in Times :
          TimedOut(b, last) ~> (TimeoutLogged(b) \/ KeyArrived(last))
    /\ [][(barcode_buffer = <<>> /\ barcode_buffer' # <<>>)
             => (\E name \in FinKeys : barcode_buffer' = <<name>>)]_vars

\* C20: the barcode the timeout check logs is the one Enter would log for the
\* same buffer: the keys joined, the space key as one space, trimmed.
C20_TimeoutBarcodeAsEnter ==
    [][(th["main"].pc = "compare" /\ th'["main"].pc = "lock")
           => th'["main"].barcode = EnterBarcode(barcode_buffer)]_vars

----------------------------------------------------------------------------
(* Start and end of the process, the calendar, and the daily rotation.      *)

Max(a, b) == IF a >= b THEN a ELSE b

\* An initialization that always writes a new workbook
InitializeExcel_Fresh(f, day, count) ==
    [fs |-> Save(f, LogPath(day), NewWorkbook), excel_path |-> LogPath(day),
     scan_count |-> 0, raised |-> FALSE]

\* _initialize_excel(): the path is today's; a missing file is created with
\* the title row, an existing one is loaded and counted.  An exception of the
\* load leaves the method (after self.excel_path is set).
InitializeExcel(f, day, count) ==
    LET path == LogPath(day)
    IN  IF ~Exists(f, path)
        THEN [fs |-> Save(f, path, NewWorkbook), excel_path |-> path,
              scan_count |-> 0, raised |-> FALSE]
        ELSE IF Loads(f, path)
        THEN [fs |-> f, excel_path |-> path,
              scan_count |-> Max(0, MaxRow(f[path].rows) - 1), raised |-> FALSE]
        ELSE [fs |-> f, excel_path |-> path, scan_count |-> count, raised |-> TRUE]

\* schedule.every().day.at("00:01"): the first run is today's 00:01 when that
\* is still ahead, and tomorrow's otherwise
FirstRun(d) == IF d.past THEN d.day + 1 ELSE d.day

\* schedule.run_pending() finds the rotation job due
Due == date.past /\ date.day >= next_run

\* What one JWTAuth / user().get() of _initialize_box_client does: TRUE when
\* it returns, FALSE when it raises
AuthOutcomes(clients) == [1..MAX_RETRIES -> clients]

\* An initialization that keeps the client of an attempt that has raised
InitializeBoxClient_Keep(outs, attempt) ==
    [client |-> TRUE, attempts |-> 1, waits |-> <<>>]

\* _initialize_box_client, from the given attempt (1-based) on: the first
\* attempt that returns gives the client; an attempt that raises is followed
\* by a sleep of retry_delay unless it was the last; after max_retries
\* failures box_client is None
RECURSIVE InitializeBoxClient(_, _)
InitializeBoxClient(outs, attempt) ==
    IF attempt > MAX_RETRIES
    THEN [client |-> FALSE, attempts |-> MAX_RETRIES, waits |-> <<>>]
    ELSE IF outs[attempt]
    THEN [client |-> TRUE, attempts |-> attempt, waits |-> <<>>]
    ELSE LET r == InitializeBoxClient(outs, attempt + 1)
         IN  [r EXCEPT !.waits = IF attempt < MAX_RETRIES
                                 THEN <<RETRY_DELAY>> \o @ ELSE @]

\* main(): BarcodeScanner(config) and the start of run().  When
\* _initialize_excel raises, the constructor fails and main() returns 1.
Start(clients) ==
    /\ proc = "down"
    /\ hist.runs < MaxRuns
    /\ LET r == InitializeExcel(fs, date.day, 0)
       IN  IF r.raised
           THEN UNCHANGED vars
           ELSE /\ fs' = r.fs
                /\ excel_path' = r.excel_path
                /\ scan_count' = r.scan_count
                /\ barcode_buffer' = <<>>
                /\ last_input_time' = NoTime
                /\ lock' = None
                /\ th' = [t \in Threads |-> Idle]
                /\ running' = TRUE
                /\ \E outs \in AuthOutcomes(clients) :
                      box_client' = InitializeBoxClient(outs, 1).client
                /\ upload_worker_running' = TRUE
                /\ upload_queue' = <<>>
                /\ unfinished' = 0
                /\ worker' = WorkerStart
                /\ next_run' = FirstRun(date)
                /\ proc' = "up"
                /\ hist' = [hist EXCEPT !.runs = @ + 1]
                /\ UNCHANGED <<remote, time, date>>

\* The process ends (a crash, a kill, a power cut) at any point, also in the
\* middle of a rotation: what it held in memory is gone, the files stay.
ProcessEnds ==
    /\ proc = "up"
    /\ proc' = "down"
    /\ running' = FALSE
    /\ excel_path' = LogPath(0)
    /\ scan_count' = 0
    /\ barcode_buffer' = <<>>
    /\ last_input_time' = NoTime
    /\ lock' = None
    /\ th' = [t \in Threads |-> Idle]
    /\ upload_queue' = <<>>
    /\ unfinished' = 0
    /\ worker' = WorkerStart
    /\ next_run' = 0
    /\ UNCHANGED <<fs, box_client,
                   upload_worker_running, remote, time, date, hist>>

\* The calendar advances: 00:01 is reached, or the next day begins.  A
\* running main loop polls the scheduler every 0.1 s, so a due rotation runs
\* before the date changes again.
DatePasses ==
    /\ proc = "up" => (th["main"].pc = "idle" /\ ~(running /\ Due))
    /\ IF ~date.past
       THEN date' = [date EXCEPT !.past = TRUE]
       ELSE /\ date.day < MaxDay
            /\ date' = [day |-> date.day + 1, past |-> FALSE]
    /\ UNCHANGED <<fs, excel_path, scan_count, barcode_buffer, last_input_time,
                   lock, th, running, box_client,
                   upload_worker_running, upload_queue, unfinished,
                   worker, remote, time, next_run, proc, hist>>

\* _log_barcode(barcode, status) as one step, every file operation that can
\* succeed succeeding
LogBarcode(f, path, count, barcode, status) ==
    IF Loads(f, path)
    THEN [fs |-> Save(f, path, Append(f[path].rows, Row(barcode, status))),
          scan_count |-> count + 1]
    ELSE [fs |-> HandleFileCorruption(f, path, count, barcode, TRUE, TRUE).fs,
          scan_count |-> HandleFileCorruption(f, path, count, barcode, TRUE, TRUE).scan_count]

\* _on_barcode_input for the keys of one barcode and Enter, with the
\* _log_barcode call it makes, as one step
Scan(barcode) ==
    /\ proc = "up"
    /\ running
    /\ \A t \in Threads : th[t].pc = "idle"
    /\ hist.scans < MaxScans
    /\ LET r == LogBarcode(fs, excel_path, scan_count, barcode,
                           IF ValidateBarcode(barcode) THEN "SUCCESS" ELSE "INVALID")
       IN  /\ fs' = r.fs
           /\ scan_count' = r.scan_count
    /\ hist' = [hist EXCEPT !.scans = @ + 1]
    /\ UNCHANGED <<excel_path, barcode_buffer, last_input_time, lock, th,
                   running, box_client,
                   upload_worker_running, upload_queue, unfinished, worker,
                   remote, time, date, next_run, proc>>

\* yesterday_file of _rotate_excel
YesterdayFile == LogPath(date.day - 1)

\* A rotation that renames without looking at yesterday's name
RotateFiles_Clobber(f, path, yesterday_file) ==
    IF Exists(f, path)
    THEN IF HasScanData(f, path)
         THEN Rename(f, path, yesterday_file)
         ELSE Unlink(f, path)
    ELSE f

\* _rotate_excel(), "Handle existing current file": a log with data is renamed
\* to yesterday's name unless a file of that name exists, an empty one is deleted
RotateFiles(f, path, yesterday_file) ==
    IF Exists(f, path)
    THEN IF HasScanData(f, path)
         THEN IF ~Exists(f, yesterday_file)
              THEN Rename(f, path, yesterday_file)
              ELSE f
         ELSE Unlink(f, path)
    ELSE f

\* A queue that drops the file, as on queue.Full
QueueFileForUpload_Drop(q, file_path) == q

\* _queue_file_for_upload(file_path): the queue is unbounded, put() returns
QueueFileForUpload(q, file_path) == Append(q, file_path)

\* A queue of size one, whose put() waits for the worker
QueueHasRoom_One(q) == Len(q) < 1

\* upload_queue = queue.Queue() has no maxsize: put() never waits
QueueHasRoom(q) == TRUE

\* _rotate_excel(), first half (lines 436-462)
RotateCurrent ==
    /\ proc = "up"
    /\ running
    /\ th["main"].pc = "idle"
    /\ Due
    /\ fs' = RotateFiles(fs, excel_path, YesterdayFile)
    /\ th' = [th EXCEPT !["main"].pc = "rotate"]
    /\ hist' = [hist EXCEPT !.rot =
                  [n |-> @.n, path |-> excel_path, yesterday |-> YesterdayFile,
                   existed |-> Exists(fs, excel_path),
                   had_data |-> Exists(fs, excel_path) /\ Len(fs[excel_path].rows) > 1,
                   rows |-> IF Exists(fs, excel_path) THEN fs[excel_path].rows ELSE <<>>,
                   occupied |-> Exists(fs, YesterdayFile) /\ YesterdayFile # excel_path,
                   queued |-> Len(upload_queue), done |-> FALSE]]
    /\ UNCHANGED <<excel_path, scan_count, barcode_buffer, last_input_time,
                   lock, running, box_client,
                   upload_worker_running, upload_queue, unfinished, worker,
                   remote, time, date, next_run, proc>>

\* _rotate_excel(), second half (lines 464-474): yesterday's file is queued
\* when it exists, today's log is initialized (an exception is logged), and
\* the scheduler sets the job's next run to tomorrow
RotateQueue ==
    /\ proc = "up"
    /\ th["main"].pc = "rotate"
    /\ IF Exists(fs, YesterdayFile)
       THEN /\ QueueHasRoom(upload_queue)
            /\ upload_queue' = QueueFileForUpload(upload_queue, YesterdayFile)
            /\ unfinished' = unfinished + (Len(upload_queue') - Len(upload_queue))
       ELSE UNCHANGED <<upload_queue, unfinished>>
    /\ LET r == InitializeExcel(fs, date.day, scan_count)
       IN  /\ fs' = r.fs
           /\ excel_path' = r.excel_path
           /\ scan_count' = r.scan_count
    /\ next_run' = date.day + 1
    /\ th' = [th EXCEPT !["main"].pc = "idle"]
    /\ hist' = [hist EXCEPT !.rot.n = @ + 1, !.rot.done = TRUE]
    /\ UNCHANGED <<barcode_buffer, last_input_time, lock, running, box_client,
                   upload_worker_running,
                   worker, remote, time, date, proc>>

----------------------------------------------------------------------------
(* SpecRot: runs of the process over several days on one base_dir, with     *)
(* scans and rotations as whole steps.                                      *)

ScanBarcode == <<"a", "b", "c">>

\* Before the first run: an empty base_dir, just after midnight
Installed ==
    /\ fs = NoFiles
    /\ excel_path = LogPath(0)
    /\ scan_count = 0
    /\ barcode_buffer = <<>>
    /\ last_input_time = NoTime
    /\ lock = None
    /\ th = [t \in Threads |-> Idle]
    /\ running = FALSE
    /\ box_client = TRUE
    /\ upload_worker_running = FALSE
    /\ upload_queue = <<>>
    /\ unfinished = 0
    /\ worker = WorkerStart
    /\ remote = <<>>
    /\ time = 0
    /\ date = [day |-> 0, past |-> FALSE]
    /\ next_run = 0
    /\ proc = "down"
    /\ hist = NoHistory

RotNext ==
    \/ Start({TRUE})
    \/ ProcessEnds
    \/ DatePasses
    \/ Scan(ScanBarcode)
    \/ RotateCurrent
    \/ RotateQueue

SpecRot == Installed /\ [][RotNext]_vars

\* The scheduling the code relies on: time passes, and the main loop runs a
\* due rotation to its end
SpecRotFair ==
    /\ SpecRot
    /\ WF_vars(DatePasses) /\ WF_vars(RotateCurrent) /\ WF_vars(RotateQueue)

InQueue(path) == \E i \in 1..Len(upload_queue) : upload_queue[i] = path

\* After a rotation of a log with data: one more task, for yesterday's file,
\* which holds the rows the log had, and a new empty log for today
SealedAndFresh ==
    LET r == hist.rot
    IN  /\ Len(upload_queue) = r.queued + 1
        /\ upload_queue[Len(upload_queue)] = r.yesterday
        /\ Exists(fs, r.yesterday)
        /\ fs[r.yesterday].rows = r.rows
        /\ excel_path = LogPath(date.day)
        /\ Exists(fs, excel_path)
        /\ fs[excel_path].rows = NewWorkbook

EmptyLogDeleted ==
    LET r == hist.rot
    IN  \/ ~Exists(fs, r.path)
        \/ r.path = LogPath(date.day) /\ fs[r.path].rows = NewWorkbook

LogPaths == {LogPath(d) : d \in 0..MaxDay}

\* A log with data that is not the current log and is not in the queue
LeftOver(path) ==
    /\ proc = "up"
    /\ path # excel_path
    /\ HasScanData(fs, path)
    /\ ~InQueue(path)

\* C7: a non-empty dated log on disk that the running process neither writes
\* to nor has enqueued is eventually enqueued (as long as the process runs).
C7_LeftOverEnqueued ==
    \A path \in LogPaths : LeftOver(path) ~> (InQueue(path) \/ proc = "down")

----------------------------------------------------------------------------
(* The upload worker: _upload_worker, _upload_with_retries, _upload_to_box. *)

\* "if item.name == file_name" for some item of folder.get_items()
Listed_Never(items, name) == FALSE

Listed(items, name) == \E i \in 1..Len(items) : items[i].name = name

\* The number of items of a name in the remote folder
Count(items, name) == Cardinality({i \in 1..Len(items) : items[i].name = name})

\* wait_time = retry_delay * (attempt + 1), attempt counted from 0
WaitTime_Flat(attempt) == RETRY_DELAY

WaitTime(attempt) == RETRY_DELAY * (attempt + 1)

\* "if attempt < max_retries - 1": a wait follows every attempt but the last
HasRetry_Always(attempt) == TRUE

HasRetry(attempt) == attempt < MAX_RETRIES - 1

\* What the remote side does with a call: get_items() returns the folder's
\* items or raises; upload_stream() stores the file and returns, raises
\* without storing, or stores the file and raises (the response is lost)
Listings == {"ok", "raises"}
Uploads == {"ok", "raises", "lost"}

\* _upload_to_box(file_path): FALSE without the file or without a client; TRUE
\* without an upload when the listing shows the name; a listing that raises
\* is logged and the upload goes ahead; an exception of the upload gives FALSE
UploadToBox(f, client, items, file_path, listing, upload) ==
    IF ~Exists(f, file_path) \/ ~client
    THEN [remote |-> items, success |-> FALSE, listed |-> FALSE, uploaded |-> FALSE]
    ELSE IF listing = "ok" /\ Listed(items, file_path)
    THEN [remote |-> items, success |-> TRUE, listed |-> TRUE, uploaded |-> FALSE]
    ELSE [remote |-> IF upload \in {"ok", "lost"}
                     THEN Append(items, [name |-> file_path, rows |-> f[file_path].rows])
                     ELSE items,
          success |-> (upload = "ok"), listed |-> FALSE, uploaded |-> TRUE]

\* The None that stop() puts in the queue (no log has this path: the earliest
\* is yesterday's of day 0)
Sentinel == [day |-> -2, suffix |-> NoSuffix]

\* A get() that takes the entry put last
QueueGet_Lifo(q) ==
    [item |-> q[Len(q)], rest |-> SubSeq(q, 1, Len(q) - 1)]

\* queue.Queue.get() on a queue that is not empty: the entry put first
QueueGet(q) == [item |-> Head(q), rest |-> Tail(q)]

\* _upload_worker: while upload_worker_running, upload_queue.get() returns a
\* file (an empty queue is polled again)
WorkerGet ==
    /\ proc = "up"
    /\ worker.pc = "get"
    /\ upload_worker_running
    /\ upload_queue # <<>>
    /\ QueueGet(upload_queue).item # Sentinel
    /\ worker' = [WorkerStart EXCEPT
                    !.pc = "attempt",
                    !.file_path = QueueGet(upload_queue).item,
                    !.rows = IF Exists(fs, QueueGet(upload_queue).item)
                             THEN fs[QueueGet(upload_queue).item].rows ELSE <<>>]
    /\ upload_queue' = QueueGet(upload_queue).rest
    /\ UNCHANGED <<fs, excel_path, scan_count, barcode_buffer, last_input_time,
                   lock, th, running, box_client,
                   upload_worker_running, unfinished, remote, time,
                   date, next_run, proc, hist>>

\* An attempt that does not look whether the file is there
AttemptStart_NoExists(f, file_path) ==
    IF ~HasScanData(f, file_path) THEN "skipped" ELSE "upload"

\* An attempt that does not look whether the file has scan data
AttemptStart_NoData(f, file_path) ==
    IF ~Exists(f, file_path) THEN "failed" ELSE "upload"

\* The checks at the start of an attempt (lines 232-244)
AttemptStart(f, file_path) ==
    IF ~Exists(f, file_path) THEN "failed"
    ELSE IF ~HasScanData(f, file_path) THEN "skipped"
    ELSE "upload"

\* _upload_with_retries, the start of an attempt (lines 229-244): a missing
\* file ends the task with False, a file without scan data is deleted and
\* ends it with True
WorkerAttempt ==
    /\ proc = "up"
    /\ worker.pc = "attempt"
    /\ IF AttemptStart(fs, worker.file_path) = "failed"
       THEN /\ worker' = [worker EXCEPT !.pc = "done", !.outcome = "failed"]
            /\ UNCHANGED fs
       ELSE IF AttemptStart(fs, worker.file_path) = "skipped"
       THEN /\ worker' = [worker EXCEPT !.pc = "done", !.outcome = "skipped"]
            /\ fs' = Unlink(fs, worker.file_path)
       ELSE /\ worker' = [worker EXCEPT !.pc = "upload"]
            /\ UNCHANGED fs
    /\ UNCHANGED <<excel_path, scan_count, barcode_buffer, last_input_time,
                   lock, th, running, box_client,
                   upload_worker_running, upload_queue, unfinished,
                   remote, time, date, next_run, proc, hist>>

\* _upload_with_retries, the rest of an attempt (lines 246-265): the call of
\* _upload_to_box; on success the task ends with True; otherwise the wait
\* (except after the last attempt) and the next attempt, or False after
\* max_retries attempts
WorkerUpload(listings, uploads) ==
    /\ proc = "up"
    /\ worker.pc = "upload"
    /\ \E listing \in listings, upload \in uploads :
         LET r == UploadToBox(fs, box_client, remote,
                              worker.file_path, listing, upload)
             called == Exists(fs, worker.file_path) /\ box_client
             faults == (IF called /\ listing = "raises" THEN 1 ELSE 0)
                         + (IF r.uploaded /\ upload # "ok" THEN 1 ELSE 0)
             waited == IF HasRetry(worker.attempt)
                       THEN Append(worker.waits, WaitTime(worker.attempt))
                       ELSE worker.waits
         IN  /\ hist.faults + faults <= MaxFaults
             /\ remote' = r.remote
             /\ hist' = [hist EXCEPT !.faults = @ + faults,
                                     !.blind = @ \/ (r.uploaded /\ listing = "raises")]
             /\ worker' =
                  IF r.success
                  THEN [worker EXCEPT !.pc = "done", !.outcome = "delivered",
                                      !.listed = r.listed, !.uploaded = r.uploaded]
                  ELSE IF worker.attempt + 1 < MAX_RETRIES
                  THEN [worker EXCEPT !.pc = "attempt", !.attempt = @ + 1,
                                      !.fails = @ + 1, !.waits = waited,
                                      !.listed = r.listed, !.uploaded = r.uploaded]
                  ELSE [worker EXCEPT !.pc = "done", !.outcome = "exhausted",
                                      !.fails = @ + 1, !.waits = waited,
                                      !.listed = r.listed, !.uploaded = r.uploaded]
    /\ UNCHANGED <<fs, excel_path, scan_count, barcode_buffer, last_input_time,
                   lock, th, running, box_client,
                   upload_worker_running, upload_queue, unfinished,
                   time, date, next_run, proc>>

\* A worker that does not mark its task as done
TaskDone_Forgotten(n) == n

\* upload_queue.task_done(): one unfinished task less
TaskDone(n) == n - 1

\* _upload_worker: the result is logged and upload_queue.task_done() called
WorkerDone ==
    /\ proc = "up"
    /\ worker.pc = "done"
    /\ worker' = [worker EXCEPT !.pc = "get"]
    /\ unfinished' = TaskDone(unfinished)
    /\ UNCHANGED <<fs, excel_path, scan_count, barcode_buffer, last_input_time,
                   lock, th, running, box_client,
                   upload_worker_running, upload_queue, remote, time,
                   date, next_run, proc, hist>>

\* _upload_worker leaves its loop: upload_worker_running is found false, or
\* get() returns None (break, without task_done)
WorkerExit ==
    /\ proc = "up"
    /\ worker.pc = "get"
    /\ \/ /\ ~upload_worker_running
          /\ UNCHANGED upload_queue
       \/ /\ upload_queue # <<>>
          /\ QueueGet(upload_queue).item = Sentinel
          /\ upload_queue' = QueueGet(upload_queue).rest
    /\ worker' = [worker EXCEPT !.pc = "exited"]
    /\ UNCHANGED <<fs, excel_path, scan_count, barcode_buffer, last_input_time,
                   lock, th, running, box_client, upload_worker_running,
                   unfinished, remote, time, date, next_run, proc, hist>>

----------------------------------------------------------------------------
(* stop(), called by run() in the main thread on KeyboardInterrupt or on an *)
(* exception of the main loop.                                              *)

\* Where the main thread is inside stop()
StopPcs == {"drain", "join", "sentinel", "final", "stopped"}

RECURSIVE UploadWithRetries(_, _, _, _, _, _)
\* _upload_with_retries(file_path) as one call, from attempt on: outs[i] is
\* what the remote side does with the listing and the upload of attempt i
UploadWithRetries(f, client, items, file_path, outs, attempt) ==
    IF attempt > MAX_RETRIES
    THEN [fs |-> f, remote |-> items, success |-> FALSE, calls |-> FALSE]
    ELSE IF ~Exists(f, file_path)
    THEN [fs |-> f, remote |-> items, success |-> FALSE, calls |-> FALSE]
    ELSE IF ~HasScanData(f, file_path)
    THEN [fs |-> Unlink(f, file_path), remote |-> items, success |-> TRUE,
          calls |-> FALSE]
    ELSE LET r == UploadToBox(f, client, items, file_path,
                              outs[attempt][1], outs[attempt][2])
             rest == UploadWithRetries(f, client, r.remote, file_path, outs,
                                       attempt + 1)
         IN  IF r.success
             THEN [fs |-> f, remote |-> r.remote, success |-> TRUE,
                   calls |-> client]
             ELSE [rest EXCEPT !.calls = client]

\* run(), lines 560-566, and stop(), lines 520-522: the main loop is left by
\* KeyboardInterrupt (at the loop or inside a rotation) or by an exception,
\* _running is set false and the keyboard hooks are removed
StopBegins ==
    /\ proc = "up"
    /\ \/ th["main"].pc \in {"idle", "rotate", "init"} /\ running
       \/ th["main"].pc = "raised"
    /\ running' = FALSE
    /\ th' = [th EXCEPT !["main"].pc = "drain"]
    /\ hist' = [hist EXCEPT !.stop = <<"flag">>]
    /\ UNCHANGED <<fs, excel_path, scan_count, barcode_buffer, last_input_time,
                   lock, box_client, upload_worker_running, upload_queue,
                   unfinished, worker, remote, time, date, next_run, proc>>

\* _wait_for_uploads_complete, lines 281-286: the loop ends when the queue is
\* empty or when the timeout has passed
StopDrain(timeouts) ==
    /\ th["main"].pc = "drain"
    /\ \E timeout \in timeouts :
         /\ upload_queue = <<>> \/ timeout
         /\ hist' = [hist EXCEPT !.stop =
                       Append(@, IF upload_queue = <<>> THEN "empty" ELSE "timeout")]
    /\ th' = [th EXCEPT !["main"].pc = "join"]
    /\ UNCHANGED <<fs, excel_path, scan_count, barcode_buffer, last_input_time,
                   lock, running, box_client, upload_worker_running,
                   upload_queue, unfinished, worker, remote, time, date,
                   next_run, proc>>

\* A join that returns at once
Joined_NoWait == TRUE

\* upload_queue.join() returns when every task put has been marked done
Joined == unfinished = 0

\* _wait_for_uploads_complete, line 289
StopJoin ==
    /\ th["main"].pc = "join"
    /\ Joined
    /\ th' = [th EXCEPT !["main"].pc = "sentinel"]
    /\ hist' = [hist EXCEPT !.stop = Append(@, "joined")]
    /\ UNCHANGED <<fs, excel_path, scan_count, barcode_buffer, last_input_time,
                   lock, running, box_client, upload_worker_running,
                   upload_queue, unfinished, worker, remote, time, date,
                   next_run, proc>>

\* stop(), lines 528-532: the worker's flag is cleared and None is put
StopSentinel ==
    /\ th["main"].pc = "sentinel"
    /\ upload_worker_running' = FALSE
    /\ upload_queue' = Append(upload_queue, Sentinel)
    /\ unfinished' = unfinished + 1
    /\ th' = [th EXCEPT !["main"].pc = "final"]
    /\ hist' = [hist EXCEPT !.stop = Append(@, "sentinel")]
    /\ UNCHANGED <<fs, excel_path, scan_count, barcode_buffer, last_input_time,
                   lock, running, box_client, worker, remote, time, date,
                   next_run, proc>>

\* stop(), lines 535-537: a current log with scan data is uploaded by a call
\* of _upload_with_retries in the main thread
StopUpload(listings, uploads) ==
    /\ th["main"].pc = "final"
    /\ IF Exists(fs, excel_path) /\ HasScanData(fs, excel_path)
       THEN \E outs \in [1..MAX_RETRIES -> listings \X uploads] :
              LET r == UploadWithRetries(fs, box_client, remote, excel_path, outs, 1)
              IN  /\ fs' = r.fs
                  /\ remote' = r.remote
                  /\ hist' = [hist EXCEPT !.stop = Append(@, "upload")]
       ELSE /\ UNCHANGED <<fs, remote>>
            /\ hist' = [hist EXCEPT !.stop = Append(@, "no upload")]
    /\ th' = [th EXCEPT !["main"].pc = "stopped"]
    /\ UNCHANGED <<excel_path, scan_count, barcode_buffer, last_input_time,
                   lock, running, box_client, upload_worker_running,
                   upload_queue, unfinished, worker, time, date, next_run, proc>>

----------------------------------------------------------------------------
(* SpecUp: one run of the process over several days, with or without a Box *)
(* client, the upload worker taking the files that the rotations enqueue,   *)
(* against a remote side that may fail.                                     *)

UpNext ==
    \/ Start({TRUE, FALSE})
    \/ DatePasses
    \/ Scan(ScanBarcode)
    \/ RotateCurrent
    \/ RotateQueue
    \/ WorkerGet
    \/ WorkerAttempt
    \/ WorkerUpload(Listings, Uploads)
    \/ WorkerDone

SpecUp == Installed /\ [][UpNext]_vars

\* The waits of a task are retry_delay, 2 * retry_delay, ... in this order
LinearWaits(waits) ==
    /\ \A i \in 1..Len(waits) : waits[i] = RETRY_DELAY * i
    /\ \A i, j \in 1..Len(waits) : i < j => waits[i] < waits[j]

C9_ExhaustedKeepsFile ==
    worker.outcome = "exhausted" =>
        /\ worker.attempt + 1 = MAX_RETRIES
        /\ worker.fails = MAX_RETRIES
        /\ Len(worker.waits) = MAX_RETRIES - 1
        /\ LinearWaits(worker.waits)
        /\ Exists(fs, worker.file_path)
        /\ fs[worker.file_path].rows = worker.rows

\* C9's case: with a client, every upload of the task has failed and the
\* task is done.
C9_Witness ==
    /\ worker.outcome = "exhausted" /\ worker.pc = "get"
    /\ box_client /\ worker.uploaded
    /\ ~Listed(remote, worker.file_path)
    /\ HasScanData(fs, worker.file_path)

\* No name is twice in the remote folder
AtMostOneItem == \A path \in LogPaths : Count(remote, path) <= 1

\* An attempt whose listing showed the file's name ended as delivered
\* without an upload
ListedIsDelivered ==
    worker.listed => (worker.outcome = "delivered" /\ ~worker.uploaded)

\* C10 as stated: a listing that shows the name ends the attempt as delivered
\* without an upload, and the remote folder never holds two items of a name.
C10_AtMostOneItemAlways == ListedIsDelivered /\ AtMostOneItem

\* C10 amended: the same, the second part for as long as no upload has
\* followed a listing that raised.
C10_AtMostOneItemWhenListed == ListedIsDelivered /\ (~hist.blind => AtMostOneItem)

\* C10's case: the file was stored by an upload whose response was lost, the
\* next attempt listed it and ended as delivered.
C10_Witness ==
    /\ worker.outcome = "delivered" /\ worker.listed /\ ~worker.uploaded
    /\ worker.fails > 0
    /\ ~hist.blind
    /\ Count(remote, worker.file_path) = 1

----------------------------------------------------------------------------
(* SpecStop: one run of the process with rotations, the upload worker and   *)
(* a shutdown at any point of the main loop.                                *)

StopListings == {"ok"}
StopUploads == {"ok", "raises"}

StopNext ==
    \/ Start({TRUE})
    \/ DatePasses
    \/ Scan(ScanBarcode)
    \/ RotateCurrent
    \/ RotateQueue
    \/ WorkerGet
    \/ WorkerAttempt
    \/ WorkerUpload(StopListings, StopUploads)
    \/ WorkerDone
    \/ WorkerExit
    \/ StopBegins
    \/ StopDrain(BOOLEAN)
    \/ StopJoin
    \/ StopSentinel
    \/ StopUpload(StopListings, StopUploads)

SpecStop == Installed /\ [][StopNext]_vars

\* The main thread runs stop() to its end; nothing is assumed of the worker,
\* whose remote calls may take any time
SpecStopFair ==
    /\ SpecStop
    /\ WF_vars(StopDrain(BOOLEAN)) /\ WF_vars(StopJoin)
    /\ WF_vars(StopSentinel) /\ WF_vars(StopUpload(StopListings, StopUploads))

InStop == th["main"].pc \in StopPcs

IsTask(entry) == entry # Sentinel

\* The files in the queue, without the sentinel
Tasks(q) == SelectSeq(q, IsTask)

LastStep(steps) == IF steps = <<>> THEN "none" ELSE steps[Len(steps)]

\* C13: stop() first clears the running flag; it puts the sentinel only after
\* the wait for the queue, into an empty queue with every task done; the
\* upload of the current log comes after the sentinel, is made by the main
\* thread, and only for a log with scan data; no task is put in the queue
\* once stop() has begun, and the sentinel is alone in the queue.
C13_StopOrder ==
    [][/\ InStop' => ~running'
       /\ (LastStep(hist.stop) # "sentinel" /\ LastStep(hist'.stop) = "sentinel")
             => /\ LastStep(hist.stop) = "joined"
                /\ upload_queue = <<>> /\ unfinished = 0
                /\ worker.pc = "get"
       /\ (LastStep(hist'.stop) \in {"upload", "no upload"} /\ hist'.stop # hist.stop)
             => /\ LastStep(hist.stop) = "sentinel"
                /\ ~upload_worker_running
                /\ worker.pc \in {"get", "exited"} /\ worker'.pc = worker.pc
                /\ (LastStep(hist'.stop) = "upload") = HasScanData(fs, excel_path)
       /\ InStop => Len(Tasks(upload_queue')) <= Len(Tasks(upload_queue))
       /\ Tasks(upload_queue') # upload_queue' => upload_queue' = <<Sentinel>>]_vars

\* C13's case: stop() began with a task in the queue, waited for the worker,
\* put the sentinel and uploaded the current log; the worker has taken the
\* sentinel and left its loop.
C13_Witness ==
    /\ th["main"].pc = "stopped"
    /\ hist.stop = <<"flag", "timeout", "joined", "sentinel", "upload">>
    /\ worker.pc = "exited" /\ worker.outcome = "delivered"
    /\ upload_queue = <<>>
    /\ Listed(remote, excel_path)

\* C14: when the wait loop of the shutdown has ended (by its timeout or on an
\* empty queue), stop() goes on to put the sentinel, whatever the worker does.
C14_DrainBounded == (th["main"].pc = "join") ~> (th["main"].pc = "final")

\* C15: while the scanner is running, a step that changes the remote folder is
\* a step of the upload worker in its call of the Box API, and no step of the
\* callback or of the main loop changes it; and a rotation that has handled the
\* current log can always go on to enqueue and return, whatever the worker and
\* the queue are doing.
C15_RemoteCallsByWorker ==
    /\ [][(running /\ remote' # remote) =>
            (worker.pc = "upload" /\ th' = th /\ fs' = fs)]_vars
    /\ []((proc = "up" /\ th["main"].pc = "rotate") => ENABLED RotateQueue)

\* C15's case: the rotation is about to enqueue yesterday's file while the
\* worker is in a call of the Box API for an earlier task.
C15_Witness ==
    /\ th["main"].pc = "rotate" /\ running
    /\ Exists(fs, YesterdayFile)
    /\ worker.pc = "upload"

\* The start has made every authentication attempt and each has raised
AllFailed(outs) == \A i \in 1..MAX_RETRIES : ~outs[i]

\* C16, the startup: max_retries failed attempts, and no more, leave the
\* scanner without a client, with a wait of retry_delay after each attempt but
\* the last; any attempt that returns gives a client.
AuthGivesUp ==
    \A outs \in AuthOutcomes(BOOLEAN) :
        LET r == InitializeBoxClient(outs, 1)
        IN  /\ r.attempts <= MAX_RETRIES
            /\ r.client = ~AllFailed(outs)
            /\ AllFailed(outs) =>
                 (r.attempts = MAX_RETRIES /\
                  r.waits = [i \in 1..(MAX_RETRIES - 1) |-> RETRY_DELAY])

\* C16, the degraded mode: a scanner that runs without a client has made no
\* call of the Box API, and a task of its worker for a file with scan data has
\* failed every attempt taken so far and ends exhausted.
Degraded ==
    (proc = "up" /\ ~box_client) =>
        /\ remote = <<>>
        /\ ~worker.uploaded /\ ~worker.listed
        /\ worker.outcome \in {"none", "failed", "skipped", "exhausted"}
        /\ worker.fails = worker.attempt + (IF worker.outcome = "exhausted" THEN 1 ELSE 0)
        /\ (worker.pc = "done" /\ HasScanData(fs, worker.file_path)) =>
               worker.outcome = "exhausted"

\* C16: when every authentication attempt of the startup has failed the
\* scanner starts without a client and never gets one; each scan is appended
\* to the current log as with a client; every task for a file with scan data
\* ends exhausted and no call of the Box API is made.
C16_DegradedMode ==
    /\ [](AuthGivesUp /\ Degraded)
    /\ [][(proc = "up" /\ proc' = "up") => box_client' = box_client]_vars
    /\ [][(~box_client /\ hist'.scans = hist.scans + 1) =>
            /\ Loads(fs', excel_path)
            /\ fs'[excel_path].rows[Len(fs'[excel_path].rows)] = Row(ScanBarcode, "SUCCESS")
            /\ Loads(fs, excel_path) =>
                 fs'[excel_path].rows = Append(fs[excel_path].rows, Row(ScanBarcode, "SUCCESS"))]_vars

\* C16's case: without a client, a scan of the new day has been logged after
\* the task for yesterday's log, which is still on disk with its data, ended
\* exhausted.
C16_Witness ==
    /\ proc = "up" /\ running /\ ~box_client
    /\ worker.outcome = "exhausted" /\ worker.pc = "get"
    /\ HasScanData(fs, worker.file_path)
    /\ worker.file_path # excel_path
    /\ HasScanData(fs, excel_path)

\* A step of _rotate_excel
RotationStep == th["main"].pc # th'["main"].pc /\ "rotate" \in {th["main"].pc, th'["main"].pc}

\* Yesterday's path holds a file that is not the current log
Occupied == Exists(fs, YesterdayFile) /\ YesterdayFile # excel_path

\* No step of a rotation gives the file at yesterday's path another content
YesterdayNotReplaced ==
    (Exists(fs, YesterdayFile) /\ Exists(fs', YesterdayFile)) =>
        fs'[YesterdayFile] = fs[YesterdayFile]

\* The file at yesterday's path and the current log are where and what they were
BothStay ==
    /\ Exists(fs', YesterdayFile) /\ fs'[YesterdayFile] = fs[YesterdayFile]
    /\ Exists(fs', excel_path) /\ fs'[excel_path] = fs[excel_path]

C18_OnlyTodaysLogTouched ==
    [][(th["main"].pc = "idle" /\ th'["main"].pc = "rotate"
            /\ excel_path # LogPath(date.day) /\ Exists(fs, excel_path)) =>
         (Exists(fs', excel_path) /\ fs'[excel_path] = fs[excel_path])]_vars

-----------------------------------------------------------------------------
(* Sealing: the rotation in the main thread, step by step, beside the       *)
(* keyboard listener's thread, which logs a scan whenever it gets the lock   *)
(* (_rotate_excel does not take it), and the upload worker.                  *)

\* _on_barcode_input for the keys of one barcode and Enter in the listener
\* thread, with its _log_barcode call, wherever the main thread is
CallbackScan(barcode) ==
    /\ proc = "up"
    /\ running
    /\ th["cb"].pc = "idle"
    /\ hist.scans < MaxScans
    /\ LET r == LogBarcode(fs, excel_path, scan_count, barcode,
                           IF ValidateBarcode(barcode) THEN "SUCCESS" ELSE "INVALID")
       IN  /\ fs' = r.fs
           /\ scan_count' = r.scan_count
    /\ hist' = [hist EXCEPT !.scans = @ + 1]
    /\ UNCHANGED <<excel_path, barcode_buffer, last_input_time, lock, th,
                   running, box_client,
                   upload_worker_running, upload_queue, unfinished, worker,
                   remote, time, date, next_run, proc>>

\* _rotate_excel(), lines 464-467: yesterday's file is queued when it exists
RotateEnqueue ==
    /\ proc = "up"
    /\ th["main"].pc = "rotate"
    /\ IF Exists(fs, YesterdayFile)
       THEN /\ QueueHasRoom(upload_queue)
            /\ upload_queue' = QueueFileForUpload(upload_queue, YesterdayFile)
            /\ unfinished' = unfinished + (Len(upload_queue') - Len(upload_queue))
       ELSE UNCHANGED <<upload_queue, unfinished>>
    /\ th' = [th EXCEPT !["main"].pc = "init"]
    /\ UNCHANGED <<fs, excel_path, scan_count, barcode_buffer, last_input_time,
                   lock, running, box_client, upload_worker_running,
                   worker, remote, time, date, next_run, proc, hist>>

\* _rotate_excel(), lines 469-474: today's log is initialized (an exception is
\* logged), and the scheduler sets the job's next run to tomorrow
RotateInitialize ==
    /\ proc = "up"
    /\ th["main"].pc = "init"
    /\ LET r == InitializeExcel(fs, date.day, scan_count)
       IN  /\ fs' = r.fs
           /\ excel_path' = r.excel_path
           /\ scan_count' = r.scan_count
    /\ next_run' = date.day + 1
    /\ th' = [th EXCEPT !["main"].pc = "idle"]
    /\ hist' = [hist EXCEPT !.rot.n = @ + 1, !.rot.done = TRUE]
    /\ UNCHANGED <<barcode_buffer, last_input_time, lock, running, box_client,
                   upload_worker_running, upload_queue, unfinished,
                   worker, remote, time, date, proc>>

SealNext ==
    \/ Start({TRUE})
    \/ DatePasses
    \/ CallbackScan(ScanBarcode)
    \/ RotateCurrent
    \/ RotateEnqueue
    \/ RotateInitialize
    \/ WorkerGet
    \/ WorkerAttempt
    \/ WorkerUpload(StopListings, StopUploads)
    \/ WorkerDone

SpecSeal == Installed /\ [][SealNext]_vars

\* The file of a queued task is on disk after the step as it was before
QueuedUntouched ==
    \A i \in 1..Len(upload_queue) :
        Exists(fs, upload_queue[i]) =>
            (Exists(fs', upload_queue[i]) /\ fs'[upload_queue[i]] = fs[upload_queue[i]])

\* The file of the task that the worker has taken is left alone by every
\* step that is not the worker's
HeldUntouched ==
    (worker.pc \in {"attempt", "upload"} /\ worker' = worker
        /\ Exists(fs, worker.file_path)) =>
            (Exists(fs', worker.file_path) /\ fs'[worker.file_path] = fs[worker.file_path])

\* C19: from the enqueue on no step changes the file of a task: not while the
\* task is queued, and not while the worker has it, so that no scan is appended
\* to it and the worker finds the records that were there at the enqueue.
C19_SealedNotAppended == [][QueuedUntouched /\ HeldUntouched]_vars

-----------------------------------------------------------------------------
(* The upload worker's tasks.                                                *)

\* The worker has taken a task and not yet called task_done() for it
Busy == worker.pc \in {"attempt", "upload", "done"}

\* The outcomes a task can end with
Terminal == {"delivered", "skipped", "failed", "exhausted"}

\* The worker takes a task in this step
Taken == worker.pc = "get" /\ worker'.pc = "attempt"

\* C21: the worker takes the task that was enqueued first and holds one task
\* at a time; a step that is not the worker's get leaves the queued tasks in
\* their order (at most one is added at the end); every task put is either
\* queued, or held by the worker, or done, never two of these or none; and a
\* task has no outcome while it is attempted and exactly one of the terminal
\* outcomes when it is done, which the task_done() step leaves as it is.
C21_TasksInOrderOnce ==
    /\ [][IF Taken
          THEN /\ upload_queue # <<>>
               /\ worker'.file_path = upload_queue[1]
               /\ Tasks(upload_queue') = Tail(Tasks(upload_queue))
               /\ unfinished' = unfinished
          ELSE /\ \/ Tasks(upload_queue') = Tasks(upload_queue)
                  \/ /\ Len(Tasks(upload_queue')) = Len(Tasks(upload_queue)) + 1
                     /\ SubSeq(Tasks(upload_queue'), 1, Len(Tasks(upload_queue)))
                          = Tasks(upload_queue)
                     /\ unfinished' = unfinished + 1
               /\ (Busy /\ Busy') => worker'.file_path = worker.file_path
               /\ (worker.pc = "done" /\ worker'.pc = "get") =>
                    (worker'.outcome = worker.outcome /\ unfinished' = unfinished - 1)]_vars
    /\ [](proc = "up" =>
            /\ unfinished = Len(upload_queue) + (IF Busy THEN 1 ELSE 0)
                              + (IF worker.pc = "exited" /\ LastStep(hist.stop) \in {"sentinel", "upload", "no upload"}
                                    /\ upload_queue = <<>> THEN 1 ELSE 0)
            /\ worker.pc \in {"attempt", "upload"} => worker.outcome = "none"
            /\ worker.pc = "done" => worker.outcome \in Terminal)

\* C21's case: of two queued tasks the worker has taken the first and ended
\* it, the second is still queued.
C21_Witness ==
    /\ worker.pc = "done" /\ worker.outcome \in Terminal
    /\ worker.file_path = LogPath(0)
    /\ upload_queue = <<LogPath(1)>>
    /\ unfinished = 2

-----------------------------------------------------------------------------
(* One task: yesterday's log, header-only or with a record, is queued on a   *)
(* running scanner whose current log is today's; the file may be removed or  *)
(* damaged from outside at any time, and the remote side may fail.           *)

TaskRows == {NewWorkbook, <<Header, Row(ScanBarcode, "SUCCESS")>>}

TaskQueued ==
    /\ excel_path = LogPath(1)
    /\ scan_count = 0
    /\ barcode_buffer = <<>>
    /\ last_input_time = NoTime
    /\ lock = None
    /\ th = [t \in Threads |-> Idle]
    /\ running = TRUE
    /\ box_client = TRUE
    /\ upload_worker_running = TRUE
    /\ upload_queue = <<LogPath(0)>>
    /\ unfinished = 1
    /\ worker = WorkerStart
    /\ remote = <<>>
    /\ time = 0
    /\ date = [day |-> 1, past |-> TRUE]
    /\ next_run = 2
    /\ proc = "up"
    /\ hist = NoHistory
    /\ \E rows \in TaskRows :
         fs = Save(Save(NoFiles, LogPath(0), rows), LogPath(1), NewWorkbook)

\* A file that is not the current log is removed from outside the program
ExternalRemove ==
    /\ \E path \in DOMAIN fs \ {excel_path} : fs' = Unlink(fs, path)
    /\ UNCHANGED <<excel_path, scan_count, barcode_buffer, last_input_time,
                   lock, th, running, box_client,
                   upload_worker_running, upload_queue, unfinished,
                   worker, remote, time, date, next_run, proc, hist>>

\* A file that is not the current log is damaged from outside the program
ExternalDamage ==
    /\ \E path \in DOMAIN fs \ {excel_path} :
         /\ fs[path].ok
         /\ fs' = [fs EXCEPT ![path].ok = FALSE]
    /\ UNCHANGED <<excel_path, scan_count, barcode_buffer, last_input_time,
                   lock, th, running, box_client,
                   upload_worker_running, upload_queue, unfinished,
                   worker, remote, time, date, next_run, proc, hist>>

TaskNext ==
    \/ Scan(ScanBarcode)
    \/ WorkerGet
    \/ WorkerAttempt
    \/ WorkerUpload(Listings, Uploads)
    \/ WorkerDone
    \/ ExternalRemove
    \/ ExternalDamage

SpecTask == TaskQueued /\ [][TaskNext]_vars

\* The worker's step from the start of an attempt
AttemptStarts == worker.pc = "attempt" /\ worker' # worker

\* The step has made no call of the Box API, and no wait or attempt was added
NoCallNoWait ==
    /\ remote' = remote
    /\ hist'.faults = hist.faults /\ hist'.blind = hist.blind
    /\ worker'.listed = worker.listed /\ worker'.uploaded = worker.uploaded
    /\ worker'.waits = worker.waits
    /\ worker'.attempt = worker.attempt /\ worker'.fails = worker.fails

\* C22: an attempt that starts without the task's file ends the task as
\* failed in this step, with no call of the Box API, no wait and no other
\* attempt; the files are left as they are.
C22_MissingFileFails ==
    [][(AttemptStarts /\ ~Exists(fs, worker.file_path)) =>
         /\ worker'.pc = "done" /\ worker'.outcome = "failed"
         /\ NoCallNoWait
         /\ fs' = fs]_vars

\* C22's case: the file was removed after the first attempt had failed and
\* its wait was made; the second attempt has ended the task as failed.
C22_Witness ==
    /\ worker.pc = "done" /\ worker.outcome = "failed"
    /\ ~Exists(fs, worker.file_path)
    /\ worker.attempt = 1 /\ worker.waits = <<RETRY_DELAY>>
    /\ worker.uploaded

-----------------------------------------------------------------------------
(* stop() beside the rotation taken step by step: the KeyboardInterrupt can  *)
(* reach the main thread at the loop and between any two steps of            *)
(* _rotate_excel.                                                            *)

HaltNext ==
    \/ Start({TRUE})
    \/ DatePasses
    \/ CallbackScan(ScanBarcode)
    \/ RotateCurrent
    \/ RotateEnqueue
    \/ RotateInitialize
    \/ WorkerGet
    \/ WorkerAttempt
    \/ WorkerUpload(StopListings, StopUploads)
    \/ WorkerDone
    \/ WorkerExit
    \/ StopBegins
    \/ StopDrain(BOOLEAN)
    \/ StopJoin
    \/ StopSentinel
    \/ StopUpload(StopListings, StopUploads)

SpecHalt == Installed /\ [][HaltNext]_vars

\* The task that the worker has taken last has ended exhausted
Exhausted == worker.outcome = "exhausted" /\ worker.pc \in {"done", "get", "exited"}

\* The number of entries of the queue for the path
Queued(q, path) == Len(SelectSeq(q, LAMBDA e : e = path))

\* The step is the call of _upload_with_retries that stop() makes
StopUploads_Current ==
    th["main"].pc = "final" /\ LastStep(hist'.stop) = "upload"

\* C24: from the end of a task as exhausted (and until the worker takes its
\* next task) the task's file stays on disk, no step puts it in the queue,
\* and the upload that stop() makes is not of this file.
C24_ExhaustedNotRetried ==
    [][Exhausted =>
         /\ Exists(fs, worker.file_path) /\ Exists(fs', worker.file_path)
         /\ Queued(upload_queue', worker.file_path) <= Queued(upload_queue, worker.file_path)
         /\ StopUploads_Current => excel_path # worker.file_path]_vars

\* The files with a corruption-tagged name
Tagged(f) == {path \in DOMAIN f : path.suffix # NoSuffix}

\* C25: a file with a corruption-tagged name is after every step where and
\* what it was before, and is never put in the upload queue.
C25_TaggedUntouched ==
    /\ [][\A path \in Tagged(fs) : Exists(fs', path) /\ fs'[path] = fs[path]]_vars
    /\ [](\A i \in 1..Len(upload_queue) : upload_queue[i].suffix = NoSuffix)

\* The paths _has_scan_data is asked about: the files on disk and the logs'
\* canonical paths, with or without a file
AskedPaths == DOMAIN fs \cup LogPaths

\* C26: _has_scan_data gives a truth value for every path, TRUE exactly for a
\* file that is there, can be read, and holds a row after the title row; for
\* a missing file and for one that cannot be read it gives FALSE.
C26_HasDataExact ==
    \A path \in AskedPaths :
        /\ HasScanData(fs, path) \in BOOLEAN
        /\ HasScanData(fs, path) <=>
             (Exists(fs, path) /\ fs[path].ok /\ Len(fs[path].rows) >= 2
                 /\ Head(fs[path].rows) = Header)
        /\ (~Exists(fs, path) \/ ~fs[path].ok) => ~HasScanData(fs, path)

\* C26's case: the worker has asked about a log that held a record and could
\* not be read any more, was answered FALSE, and has ended the task as
\* skipped; another log is on disk with the title row only.
C26_Witness ==
    /\ worker.pc = "done" /\ worker.outcome = "skipped"
    /\ Len(worker.rows) = 2
    /\ Loads(fs, excel_path) /\ ~HasScanData(fs, excel_path)

-----------------------------------------------------------------------------
(* _initialize_excel as the rotation calls it: yesterday's log is the        *)
(* current log, and at today's path there is no file, or a log of an         *)
(* earlier run with up to MaxScans records, readable or not.                 *)

\* The logs that can be at today's path
FoundRows ==
    {NewWorkbook,
     <<Header, Row(ScanBarcode, "SUCCESS")>>,
     <<Header, Row(ScanBarcode, "SUCCESS"), Row(ScanBarcode, "TIMEOUT")>>}

BeforeInitialize ==
    /\ barcode_buffer = <<>>
    /\ last_input_time = NoTime
    /\ lock = None
    /\ th = [t \in Threads |-> IF t = "main" THEN [Idle EXCEPT !.pc = "init"] ELSE Idle]
    /\ running = TRUE
    /\ box_client = TRUE
    /\ upload_worker_running = TRUE
    /\ upload_queue = <<>>
    /\ unfinished = 0
    /\ worker = WorkerStart
    /\ remote = <<>>
    /\ time = 0
    /\ proc = "up"
    /\ hist = NoHistory
    /\ \E day \in 1..MaxDay :
         /\ date = [day |-> day, past |-> TRUE]
         /\ next_run = day
         /\ excel_path = LogPath(day - 1)
         /\ \/ fs = Save(NoFiles, LogPath(day - 1), NewWorkbook)
            \/ \E rows \in FoundRows, ok \in BOOLEAN :
                 fs = [Save(Save(NoFiles, LogPath(day - 1), NewWorkbook),
                            LogPath(day), rows) EXCEPT ![LogPath(day)].ok = ok]
    /\ scan_count \in 0..MaxScans

InitNext ==
    \/ RotateInitialize
    \/ CallbackScan(ScanBarcode)

SpecInit == BeforeInitialize /\ [][InitNext]_vars

\* The step is a call of _initialize_excel
Initializes == th["main"].pc = "init" /\ th'["main"].pc = "idle"

\* A second call, right after the call of this step, changes nothing
SecondCallSame ==
    LET r == InitializeExcel(fs', date.day, scan_count')
    IN  r.fs = fs' /\ r.excel_path = excel_path' /\ r.scan_count = scan_count'

\* The call has created today's log with the title row and set the counter to 0
CreatedFresh ==
    /\ fs' = Save(fs, LogPath(date.day), NewWorkbook)
    /\ scan_count' = 0

\* The call has left the files alone and counted the records of today's log
CountedExisting ==
    /\ fs' = fs
    /\ scan_count' = Len(fs[LogPath(date.day)].rows) - 1

-----------------------------------------------------------------------------
(* The buffer's limit: key events of one collected key and of a key that is  *)
(* not collected, down and up, with no Enter, until the buffer overflows     *)
(* and after.                                                                *)

UpKey == <<"u", "p">>

BufKeys == {<<"a">>, UpKey}

BufInput == \E name \in BufKeys, down \in BOOLEAN : OnBarcodeInput(name, down)

BufNext ==
    \/ BufInput
    \/ Tick(BARCODE_TIMEOUT + 1, MaxTicks * (BARCODE_TIMEOUT + 1))

SpecBuf == Started /\ [][BufNext]_vars

\* C28: the buffer never holds more than 100 keys; a key event changes it
\* only by appending one key to fewer than 100 (to none: a fresh buffer of
\* this key) or by emptying a buffer of 100, and then nothing is logged: no
\* _log_barcode call is made and the files are as they were.
C28_BufferLimit ==
    /\ [](Len(barcode_buffer) <= BUFFER_LIMIT)
    /\ [][barcode_buffer' # barcode_buffer =>
            \/ /\ Len(barcode_buffer) < BUFFER_LIMIT
               /\ \E name \in BufKeys : barcode_buffer' = Append(barcode_buffer, name)
               /\ last_input_time' = time
            \/ /\ Len(barcode_buffer) = BUFFER_LIMIT
               /\ barcode_buffer' = <<>>
               /\ last_input_time' = NoTime
               /\ th' = th /\ fs' = fs /\ scan_count' = scan_count /\ hist' = hist]_vars

\* C28's case: the buffer holds 100 keys after 100 handled key events; the
\* clock has advanced since the first of them.
C28_Witness ==
    /\ Len(barcode_buffer) = BUFFER_LIMIT
    /\ last_input_time = time /\ time > 0

-----------------------------------------------------------------------------
(* The callback and the timeout check on the same buffer.                    *)

\* Thread t has joined the buffer for _log_barcode and not yet cleared it
Finalizing(t) == th[t].pc \in {"lock", "load", "save", "clear"}

\* The buffer that thread t clears in this step is the one it has logged
ClearsWhatItLogged(t) ==
    (th[t].pc = "clear" /\ th'[t].pc = "idle" /\ barcode_buffer # <<>>) =>
        th[t].barcode = (IF t = "main" THEN TimeoutBarcode(barcode_buffer)
                         ELSE EnterBarcode(barcode_buffer))

\* C29: the callback and the timeout check never finalize the same buffer
\* both (each would write a record of its keys), and the buffer a thread
\* clears after its record is written holds the keys of that record and no
\* key that came in since.
C29_EachKeyInOneRecord ==
    /\ [](~(Finalizing("cb") /\ Finalizing("main")))
    /\ [][\A t \in Threads : ClearsWhatItLogged(t)]_vars

-----------------------------------------------------------------------------
(* The rotation beside an append: _rotate_excel in the main thread, check by *)
(* check and call by call, and _log_barcode in the listener thread, step by  *)
(* step; only the body of _log_barcode is under the lock.                    *)

\* _on_barcode_input on Enter with the keys of one barcode in the buffer:
\* the call of _log_barcode is made
RaceScan ==
    /\ proc = "up"
    /\ running
    /\ th["cb"].pc = "idle"
    /\ Calls < MaxScans
    /\ CallLogBarcode("cb", ScanBarcode, "SUCCESS")
    /\ UNCHANGED <<fs, excel_path, scan_count, barcode_buffer, last_input_time,
                   lock, running, box_client, upload_worker_running,
                   upload_queue, unfinished, worker, remote, time, date,
                   next_run, proc, hist>>

\* _rotate_excel(), lines 444-447: self.excel_path.exists() and
\* _has_scan_data(self.excel_path) are evaluated
RotateCheck ==
    /\ proc = "up"
    /\ running
    /\ th["main"].pc = "idle"
    /\ Due
    /\ th' = [th EXCEPT !["main"].pc = "check",
                        !["main"].status =
                            IF ~Exists(fs, excel_path) THEN "missing"
                            ELSE IF HasScanData(fs, excel_path) THEN "data"
                            ELSE "empty"]
    /\ UNCHANGED <<fs, excel_path, scan_count, barcode_buffer, last_input_time,
                   lock, running, box_client, upload_worker_running,
                   upload_queue, unfinished, worker, remote, time, date,
                   next_run, proc, hist>>

\* _rotate_excel(), lines 448-462: the rename of a log found with data unless
\* yesterday's name is taken, or the unlink of a log found empty (an
\* exception of either is logged)
RotateHandle ==
    /\ proc = "up"
    /\ th["main"].pc = "check"
    /\ fs' = IF th["main"].status = "data"
             THEN IF ~Exists(fs, YesterdayFile) /\ Exists(fs, excel_path)
                  THEN Rename(fs, excel_path, YesterdayFile)
                  ELSE fs
             ELSE IF th["main"].status = "empty"
             THEN Unlink(fs, excel_path)
             ELSE fs
    /\ th' = [th EXCEPT !["main"].pc = "rotate", !["main"].status = ""]
    /\ UNCHANGED <<excel_path, scan_count, barcode_buffer, last_input_time,
                   lock, running, box_client, upload_worker_running,
                   upload_queue, unfinished, worker, remote, time, date,
                   next_run, proc, hist>>

RaceNext ==
    \/ RaceScan
    \/ LogLock("cb")
    \/ LogLoad("cb", {TRUE}, {TRUE})
    \/ LogSave("cb", {TRUE}, {TRUE}, {TRUE})
    \/ ClearBuffer("cb")
    \/ DatePasses
    \/ RotateCheck
    \/ RotateHandle
    \/ RotateEnqueue
    \/ RotateInitialize

SpecRace == Started /\ [][RaceNext]_vars

\* The number of records in the files of the set
RECURSIVE RecordsIn(_, _)
RecordsIn(f, paths) ==
    IF paths = {} THEN 0
    ELSE LET path == CHOOSE p \in paths : TRUE
         IN  Len(Records(f, path)) + RecordsIn(f, paths \ {path})

\* The number of records in all files on disk
TotalRecords(f) == RecordsIn(f, DOMAIN f)

\* C30: no step takes a record away from the files on disk, and the files
\* never hold more records than _log_barcode calls have been made: each
\* record that was appended is in one file and in one only.
C30_RecordInOneLog ==
    /\ [][TotalRecords(fs') >= TotalRecords(fs)]_vars
    /\ [](TotalRecords(fs) <= Len(hist.calls))

-----------------------------------------------------------------------------
(* SpecDay: runs of the process that end by stop() or by a crash and start  *)
(* again, on the same day or a later one, against a remote side that        *)
(* answers every call.                                                      *)

DayListings == {"ok"}
DayUploads == {"ok"}

DayNext ==
    \/ Start({TRUE})
    \/ ProcessEnds
    \/ DatePasses
    \/ Scan(ScanBarcode)
    \/ RotateCurrent
    \/ RotateQueue
    \/ WorkerGet
    \/ WorkerAttempt
    \/ WorkerUpload(DayListings, DayUploads)
    \/ WorkerDone
    \/ WorkerExit
    \/ StopBegins
    \/ StopDrain(BOOLEAN)
    \/ StopJoin
    \/ StopSentinel
    \/ StopUpload(DayListings, DayUploads)

SpecDay == Installed /\ [][DayNext]_vars

\* The remote folder has an item of the name with every row of the sequence
Holds(items, name, rows) ==
    \E i \in 1..Len(items) :
       /\ items[i].name = name
       /\ \A k \in 1..Len(rows) :
             \E j \in 1..Len(items[i].rows) : items[i].rows[j] = rows[k]

\* A task of the worker ends as delivered
WorkerDelivers ==
    /\ worker.pc = "upload"
    /\ worker'.pc = "done"
    /\ worker'.outcome = "delivered"

\* The shutdown upload of stop(), whatever the remote side answers: a
\* success of _upload_with_retries leaves the records of the file remote
StopDeliversAll ==
    (th["main"].pc = "final" /\ Exists(fs, excel_path)
       /\ HasScanData(fs, excel_path))
    => \A outs \in [1..MAX_RETRIES -> DayListings \X DayUploads] :
          LET r == UploadWithRetries(fs, box_client, remote, excel_path, outs, 1)
          IN  r.success => Holds(r.remote, excel_path, r.fs[excel_path].rows)

\* C31: an upload that ends as delivered, by the worker or by stop(), leaves
\* in the remote folder an item of the file's name with every record that
\* the local file holds at that moment.
C31_DeliveredHoldsRecords ==
    /\ [][WorkerDelivers
            => Holds(remote', worker.file_path, fs'[worker.file_path].rows)]_vars
    /\ []StopDeliversAll

-----------------------------------------------------------------------------
(* SpecDmg: a run over several days with scans, rotations and the upload    *)
(* worker, in which a log file may become unreadable from outside the       *)
(* program, its records still on disk.                                      *)

DmgNext ==
    \/ Start({TRUE})
    \/ DatePasses
    \/ Scan(ScanBarcode)
    \/ CorruptFile
    \/ ExternalDamage
    \/ RotateCurrent
    \/ RotateQueue
    \/ WorkerGet
    \/ WorkerAttempt
    \/ WorkerUpload(DayListings, DayUploads)
    \/ WorkerDone

SpecDmg == Installed /\ [][DmgNext]_vars

\* A step of _rotate_excel's handling of the current file, or of the start
\* of an attempt of _upload_with_retries
RotationOrWorkerStep ==
    \/ th["main"].pc = "idle" /\ th'["main"].pc = "rotate"
    \/ worker.pc = "attempt" /\ worker'.pc # "attempt"

\* The file of the path is gone after the step, under this and any new name
Deleted(path) ==
    /\ Exists(fs, path)
    /\ ~Exists(fs', path)
    /\ ~\E other \in DOMAIN fs' \ DOMAIN fs : fs'[other] = fs[path]

\* C32: a step of the rotation or of the upload worker deletes only files
\* with no record beyond the header, readable or not.
C32_RecordsNeverDeleted ==
    [][\A path \in DOMAIN fs :
          (RotationOrWorkerStep /\ Deleted(path)) => Len(fs[path].rows) <= 1]_vars

-----------------------------------------------------------------------------
\* No call of _log_barcode, _initialize_excel or _rotate_excel is under way
Quiet == proc = "up" /\ lock = None /\ \A t \in Threads : th[t].pc = "idle"

\* The records beyond the header of the file of the path (none without it)
RecordCount(f, path) == IF Exists(f, path) THEN Len(Records(f, path)) ELSE 0

\* C33: when every append, recovery, initialization and rotation that was
\* begun has completed, scan_count is the number of records beyond the
\* header in the current log file.
C33_CounterIsRecords == Quiet => scan_count = RecordCount(fs, excel_path)

-----------------------------------------------------------------------------
(* SpecEnd: a running scanner with one or two tasks in its queue, scans and *)
(* the worker, until stop() is called and runs to its end; every remote     *)
(* call returns, with a result or with an exception.                        *)

\* The queue after the rotations of day 1 and day 2, the worker not yet at
\* its first task
EndQueues == {<<LogPath(1)>>, <<LogPath(0), LogPath(1)>>}

EndQueued ==
    /\ excel_path = LogPath(2)
    /\ scan_count = 0
    /\ barcode_buffer = <<>>
    /\ last_input_time = NoTime
    /\ lock = None
    /\ th = [t \in Threads |-> Idle]
    /\ running = TRUE
    /\ box_client = TRUE
    /\ upload_worker_running = TRUE
    /\ upload_queue \in EndQueues
    /\ unfinished = Len(upload_queue)
    /\ worker = WorkerStart
    /\ remote = <<>>
    /\ time = 0
    /\ date = [day |-> 2, past |-> TRUE]
    /\ next_run = 3
    /\ proc = "up"
    /\ hist = NoHistory
    /\ \E rows \in TaskRows :
         fs = Save(Save(Save(NoFiles, LogPath(0), rows), LogPath(1), rows),
                   LogPath(2), NewWorkbook)

EndNext ==
    \/ Scan(ScanBarcode)
    \/ WorkerGet
    \/ WorkerAttempt
    \/ WorkerUpload(StopListings, StopUploads)
    \/ WorkerDone
    \/ WorkerExit
    \/ StopBegins
    \/ StopDrain(BOOLEAN)
    \/ StopJoin
    \/ StopSentinel
    \/ StopUpload(StopListings, StopUploads)

SpecEnd == EndQueued /\ [][EndNext]_vars

\* The scheduling the code relies on: the main thread runs stop() step by
\* step, the worker thread runs its loop, and each remote call returns
SpecEndFair ==
    /\ SpecEnd
    /\ WF_vars(StopDrain(BOOLEAN)) /\ WF_vars(StopJoin)
    /\ WF_vars(StopSentinel) /\ WF_vars(StopUpload(StopListings, StopUploads))
    /\ WF_vars(WorkerGet) /\ WF_vars(WorkerAttempt)
    /\ WF_vars(WorkerUpload(StopListings, StopUploads))
    /\ WF_vars(WorkerDone) /\ WF_vars(WorkerExit)

\* stop() has returned, the worker has left its loop, and no task is left
\* in the queue or in the worker's hands
ShutDown ==
    /\ th["main"].pc = "stopped"
    /\ worker.pc = "exited"
    /\ Tasks(upload_queue) = <<>>
    /\ worker.outcome \in Terminal \cup {"none"}

\* C34: once stop() has been called, stop() returns, the worker leaves its
\* loop, and every task that was in the queue or with the worker has reached
\* a terminal outcome.
C34_ShutdownTerminates == InStop ~> ShutDown

\* C34's case: stop() was called with a task still in the queue, its wait
\* loop timed out, and the shutdown is complete with that task ended
C34_Witness ==
    /\ ShutDown
    /\ worker.outcome \in Terminal
    /\ hist.stop[2] = "timeout"

====
